---- MODULE Spec2Model ----
(***************************************************************************)
(* Data-access layer and request handlers of photoshare: photos, users,    *)
(* votes, tags, lists and search, login, delete.  The store is a set of    *)
(* rows; every handler is a sequence                                       *)
(* of store operations, one step each, so that handlers of concurrent      *)
(* requests interleave between store operations as goroutines do.          *)
(*                                                                         *)
(* Strings that the code parses or formats are sequences of one-character  *)
(* strings: <<"{", "1", ",", "2", "}">> is the Go string "{1,2}".          *)
(***************************************************************************)
EXTENDS Integers, Sequences, FiniteSets, TLC

\* ---------------------------------------------------------------- bounds
NumUsers == 2
NumPhotos == 2
NumProcs == 2
MaxRequests == 3

Users == 1..NumUsers
Photos == 1..NumPhotos
Procs == 1..NumProcs
Sessions == 0..NumUsers          \* 0: a request without a login session

\* ------------------------------------------------------- strings (Go strings)
Digits == <<"0", "1", "2", "3", "4", "5", "6", "7", "8", "9">>

IsDigit(c) == \E d \in 1..10 : Digits[d] = c

DigitVal(c) == (CHOOSE d \in 1..10 : Digits[d] = c) - 1

\* strconv.FormatInt(value, 10), value >= 0
RECURSIVE FormatInt(_)
FormatInt(n) ==
    IF n < 10 THEN <<Digits[n + 1]>>
    ELSE FormatInt(n \div 10) \o <<Digits[(n % 10) + 1]>>

\* strconv.Atoi: err == nil exactly for a non-empty run of digits (the
\* alphabet of the votes field holds no sign character)
AtoiOk(s) == Len(s) > 0 /\ \A i \in 1..Len(s) : IsDigit(s[i])

RECURSIVE AtoiVal(_)
AtoiVal(s) ==
    IF Len(s) = 0 THEN 0
    ELSE 10 * AtoiVal(SubSeq(s, 1, Len(s) - 1)) + DigitVal(s[Len(s)])

\* strings.TrimLeft(s, cutset) / strings.TrimRight(s, cutset)
RECURSIVE TrimLeft(_, _)
TrimLeft(s, cutset) ==
    IF Len(s) > 0 /\ s[1] \in cutset THEN TrimLeft(Tail(s), cutset) ELSE s

RECURSIVE TrimRight(_, _)
TrimRight(s, cutset) ==
    IF Len(s) > 0 /\ s[Len(s)] \in cutset
    THEN TrimRight(SubSeq(s, 1, Len(s) - 1), cutset)
    ELSE s

\* strings.Split(s, sep) for a one-character sep: always at least one field
RECURSIVE Split(_, _)
Split(s, sep) ==
    IF \A i \in 1..Len(s) : s[i] # sep THEN <<s>>
    ELSE LET k == CHOOSE i \in 1..Len(s) :
                      s[i] = sep /\ \A j \in 1..(i - 1) : s[j] # sep
         IN  <<SubSeq(s, 1, k - 1)>> \o Split(SubSeq(s, k + 1, Len(s)), sep)

\* strings.Join(fields, sep)
RECURSIVE Join(_, _)
Join(fields, sep) ==
    IF Len(fields) = 0 THEN <<>>
    ELSE IF Len(fields) = 1 THEN fields[1]
    ELSE fields[1] \o <<sep>> \o Join(Tail(fields), sep)

\* Converts a Pg Array (returned as string) to an int slice
RECURSIVE ParseItems(_)
ParseItems(fields) ==
    IF Len(fields) = 0 THEN <<>>
    ELSE (IF AtoiOk(fields[1]) THEN <<AtoiVal(fields[1])>> ELSE <<>>)
         \o ParseItems(Tail(fields))

pgArrToIntSlice(pgArr) ==
    ParseItems(Split(TrimRight(TrimLeft(pgArr, {"{"}), {"}"}), ","))

\* Converts an int slice to a Pg Array string
intSliceToPgArr(items) ==
    <<"{">> \o Join([i \in 1..Len(items) |-> FormatInt(items[i])], ",") \o <<"}">>

\* ------------------------------------------------------------------ User
GetVotes(user) == pgArrToIntSlice(user.Votes)

SetVotes(user, votes) == [user EXCEPT !.Votes = intSliceToPgArr(votes)]

RegisterVote(user, photoID) == SetVotes(user, Append(GetVotes(user), photoID))

HasVoted(user, photoID) ==
    \E i \in 1..Len(GetVotes(user)) : GetVotes(user)[i] = photoID

\* the photo identifiers a user's votes field holds
VoteSet(user) == {GetVotes(user)[i] : i \in 1..Len(GetVotes(user))}

\* PreInsert: a new user's votes field
EmptyVotes == <<"{", "}">>

\* ----------------------------------------------------------------- Photo
\* a nil *User / a nil *Photo
Nil == [ID |-> -1]

\* mutant: CanEdit without the administrator's right
CanEdit_OwnerOnly(photo, user) ==
    IF user = Nil \/ ~user.IsAuthenticated THEN FALSE
    ELSE photo.OwnerID = user.ID

CanEdit(photo, user) ==
    IF user = Nil \/ ~user.IsAuthenticated THEN FALSE
    ELSE user.IsAdmin \/ photo.OwnerID = user.ID

CanDelete(photo, user) == CanEdit(photo, user)

\* mutant: CanVote without the owner test
CanVote_OwnerMayVote(photo, user) ==
    IF user = Nil \/ ~user.IsAuthenticated THEN FALSE
    ELSE ~HasVoted(user, photo.ID)

CanVote(photo, user) ==
    IF user = Nil \/ ~user.IsAuthenticated THEN FALSE
    ELSE IF photo.OwnerID = user.ID THEN FALSE
    ELSE ~HasVoted(user, photo.ID)


\* ----------------------------------------------------------------- state
VARIABLES
    dbPhotos,        \* table photos: id -> row
    dbUsers,         \* table users: id -> row (IsAuthenticated is db:"-")
    pc,              \* per request slot: where its handler stands
    req,             \* per request slot: the request (handler, session, form)
    user,            \* per request slot: the handler's *User
    photo,           \* per request slot: the handler's *Photo
    outcome,         \* per request slot: the status rendered
    started,         \* requests received so far
    succeeded,       \* history: (user, photo) pairs whose vote rendered OK
    afterSuccess,    \* history: the slot's request came in after an OK vote of its pair
    concurrentWith,  \* history: slots whose vote on the same pair overlapped this one
    tblPhotos,       \* (tag model) ids of the rows of table photos
    tblTags,         \* (tag model) names of the rows of table tags
    tblPhotoTags,    \* (tag model) rows of photo_tags as <<photo id, tag name>>
    nextID,          \* (tag model) the photos id sequence
    calls,           \* (tag model) repository calls made so far
    last,            \* (tag model) the last repository call and its result
    voted,           \* (permission model) history: photo ids registered per user
    detail,          \* (permission model) the last PhotoDetail computed
    list,            \* (list model) the last list request and what it returned
    ofs,             \* (offset model) a page number and the offset computed for it
    auth,            \* (login model) the last Authenticate call and its result
    del,             \* (delete model) the Delete call: where it stands, its result
    cleaner,         \* (delete model) the goroutines running photoCleaner.Clean
    files            \* (delete model) the file names present in the file storage

voteVars == <<dbPhotos, dbUsers, pc, req, user, photo, outcome, started,
              succeeded, afterSuccess, concurrentWith>>
tagVars == <<tblPhotos, tblTags, tblPhotoTags, nextID, calls, last>>
permVars == <<voted, detail>>
repoVars == <<list, ofs, auth, del, cleaner, files>>
vars == <<voteVars, tagVars, permVars, repoVars>>

\* ------------------------------------------------------- request handlers
Votes == {"voteUp", "voteDown"}

InFlight(r) == pc[r] \notin {"idle", "done"}

\* the user of a request: an unauthenticated zero User without a session,
\* the stored row with IsAuthenticated set otherwise
AnonymousUser ==
    [ID |-> 0, IsAdmin |-> FALSE, IsAuthenticated |-> FALSE, Votes |-> <<>>]

getCurrentUser(sess) ==
    IF sess = 0 THEN AnonymousUser
    ELSE [ID |-> dbUsers[sess].ID, IsAdmin |-> dbUsers[sess].IsAdmin,
          IsAuthenticated |-> TRUE, Votes |-> dbUsers[sess].Votes]

\* photoMgr.Get: nil for id 0 and for a missing row
Get(photoID) ==
    IF photoID = 0 \/ photoID \notin DOMAIN dbPhotos THEN Nil
    ELSE dbPhotos[photoID]

\* the closures voteUp and voteDown hand to vote
fn(kind, p) ==
    IF kind = "voteUp" THEN [p EXCEPT !.UpVotes = @ + 1]
    ELSE [p EXCEPT !.DownVotes = @ + 1]

\* the photo validator: a title must not be empty
ValidTitle(title) == title # ""

\* the users row gorp writes for a *User
UserRow(u) == [ID |-> u.ID, IsAdmin |-> u.IsAdmin, Votes |-> u.Votes]

Render(r, status) ==
    /\ pc' = [pc EXCEPT ![r] = "done"]
    /\ outcome' = [outcome EXCEPT ![r] = status]

\* slots are handed out lowest first
FreeSlot(r) == ~InFlight(r) /\ \A s \in 1..(r - 1) : InFlight(s)

Requests ==
    [kind : Votes, sess : Sessions, pid : 0..NumPhotos, title : {""}]
    \cup [kind : {"editPhotoTitle"}, sess : Sessions, pid : 0..NumPhotos,
          title : {"", "t"}]

\* a request comes in: checkAuth resolves its user
checkAuth(r, q) ==
    /\ started < MaxRequests
    /\ FreeSlot(r)
    /\ started' = started + 1
    /\ req' = [req EXCEPT ![r] = q]
    /\ user' = [user EXCEPT ![r] = getCurrentUser(q.sess)]
    /\ photo' = [photo EXCEPT ![r] = Nil]
    /\ IF ~getCurrentUser(q.sess).IsAuthenticated
       THEN Render(r, "Unauthorized")
       ELSE /\ pc' = [pc EXCEPT ![r] = "getPhoto"]
            /\ outcome' = [outcome EXCEPT ![r] = "none"]
    /\ afterSuccess' =
           [afterSuccess EXCEPT ![r] = q.kind \in Votes /\ <<q.sess, q.pid>> \in succeeded]
    /\ LET peers == IF q.kind \in Votes /\ q.sess # 0
                    THEN {s \in Procs \ {r} :
                              /\ InFlight(s)
                              /\ req[s].kind \in Votes
                              /\ req[s].sess = q.sess
                              /\ req[s].pid = q.pid}
                    ELSE {}
       IN  concurrentWith' =
               [s \in Procs |->
                   IF s = r THEN peers
                   ELSE IF s \in peers THEN concurrentWith[s] \cup {r}
                   ELSE concurrentWith[s] \ {r}]
    /\ UNCHANGED <<dbPhotos, dbUsers, succeeded>>

\* vote: getPhoto, CanVote, fn(photo)
voteGetPhoto(r) ==
    /\ pc[r] = "getPhoto"
    /\ req[r].kind \in Votes
    /\ LET p == Get(req[r].pid)
       IN  IF p = Nil THEN Render(r, "NotFound") /\ UNCHANGED photo
           ELSE IF ~CanVote(p, user[r])
           THEN Render(r, "Forbidden") /\ photo' = [photo EXCEPT ![r] = p]
           ELSE /\ photo' = [photo EXCEPT ![r] = fn(req[r].kind, p)]
                /\ pc' = [pc EXCEPT ![r] = "updatePhoto"]
                /\ UNCHANGED outcome
    /\ UNCHANGED <<dbPhotos, dbUsers, req, user, started, succeeded,
                   afterSuccess, concurrentWith>>

\* editPhotoTitle: getPhotoToEdit (getPhoto, CanEdit), the title, the validator
editGetPhoto(r) ==
    /\ pc[r] = "getPhoto"
    /\ req[r].kind = "editPhotoTitle"
    /\ LET p == Get(req[r].pid)
       IN  IF p = Nil THEN Render(r, "NotFound") /\ UNCHANGED photo
           ELSE IF ~CanEdit(p, user[r])
           THEN Render(r, "Forbidden") /\ photo' = [photo EXCEPT ![r] = p]
           ELSE /\ photo' = [photo EXCEPT ![r] = [p EXCEPT !.Title = req[r].title]]
                /\ IF ~ValidTitle(req[r].title)
                   THEN Render(r, "BadRequest")
                   ELSE /\ pc' = [pc EXCEPT ![r] = "updatePhoto"]
                        /\ UNCHANGED outcome
    /\ UNCHANGED <<dbPhotos, dbUsers, req, user, started, succeeded,
                   afterSuccess, concurrentWith>>

\* photoMgr.Update: gorp writes every column of the row with the photo's id
Update(p) == dbPhotos' = [dbPhotos EXCEPT ![p.ID] = p]

\* vote and editPhotoTitle: photoMgr.Update(photo) succeeds
photoUpdate(r) ==
    /\ pc[r] = "updatePhoto"
    /\ Update(photo[r])
    /\ IF req[r].kind \in Votes
       THEN pc' = [pc EXCEPT ![r] = "updateUser"] /\ UNCHANGED outcome
       ELSE Render(r, "OK")
    /\ UNCHANGED <<dbUsers, req, user, photo, started, succeeded,
                   afterSuccess, concurrentWith>>

\* vote and editPhotoTitle: photoMgr.Update(photo) returns an error
photoUpdateFails(r) ==
    /\ pc[r] = "updatePhoto"
    /\ Render(r, "ServerError")
    /\ UNCHANGED <<dbPhotos, dbUsers, req, user, photo, started, succeeded,
                   afterSuccess, concurrentWith>>

\* userMgr.Update: gorp writes every column of the row with the user's id
UserUpdate(u) == dbUsers' = [dbUsers EXCEPT ![u.ID] = UserRow(u)]

\* vote: user.RegisterVote(photo.ID), userMgr.Update(user) succeeds.  user[r]
\* keeps the *User as checkAuth read it: the handler uses the registered
\* value for this write alone.
userUpdate(r) ==
    /\ pc[r] = "updateUser"
    /\ UserUpdate(RegisterVote(user[r], photo[r].ID))
    /\ Render(r, "OK")
    /\ succeeded' = succeeded \cup {<<req[r].sess, req[r].pid>>}
    /\ UNCHANGED <<dbPhotos, req, user, photo, started, afterSuccess,
                   concurrentWith>>

\* vote: userMgr.Update(user) returns an error
userUpdateFails(r) ==
    /\ pc[r] = "updateUser"
    /\ Render(r, "ServerError")
    /\ UNCHANGED <<dbPhotos, dbUsers, req, user, photo, started, succeeded,
                   afterSuccess, concurrentWith>>

\* ------------------------------------------------------ the vote model
NoTagModel ==
    /\ tblPhotos = {}
    /\ tblTags = {}
    /\ tblPhotoTags = {}
    /\ nextID = 1
    /\ calls = 0
    /\ last = [op |-> "none"]

NoPermModel == voted = <<>> /\ detail = [op |-> "none"]

NoListModel == list = [op |-> "none"]

NoOffsetModel == ofs = [op |-> "none"]

NoAuthModel == auth = [op |-> "none"]

NoDeleteModel == del = [pc |-> "idle"] /\ cleaner = <<>> /\ files = {}

NoRepoModels == NoListModel /\ NoOffsetModel /\ NoAuthModel /\ NoDeleteModel

\* no request is being handled
NoRequests ==
    /\ pc = [r \in Procs |-> "idle"]
    /\ req = [r \in Procs |-> [kind |-> "none"]]
    /\ user = [r \in Procs |-> Nil]
    /\ photo = [r \in Procs |-> Nil]
    /\ outcome = [r \in Procs |-> "none"]
    /\ started = 0
    /\ succeeded = {}
    /\ afterSuccess = [r \in Procs |-> FALSE]
    /\ concurrentWith = [r \in Procs |-> {}]

\* users and photos exist, every photo with some owner; there is no
\* administrator or the last user is one; nobody has voted
Init ==
    /\ \E owner \in [Photos -> Users] :
           dbPhotos = [p \in Photos |->
                          [ID |-> p, OwnerID |-> owner[p], Title |-> "t0",
                           UpVotes |-> 0, DownVotes |-> 0]]
    /\ \E admins \in {{}, {NumUsers}} :
           dbUsers = [u \in Users |->
                         [ID |-> u, IsAdmin |-> u \in admins, Votes |-> EmptyVotes]]
    /\ pc = [r \in Procs |-> "idle"]
    /\ req = [r \in Procs |-> [kind |-> "none"]]
    /\ user = [r \in Procs |-> Nil]
    /\ photo = [r \in Procs |-> Nil]
    /\ outcome = [r \in Procs |-> "none"]
    /\ started = 0
    /\ succeeded = {}
    /\ afterSuccess = [r \in Procs |-> FALSE]
    /\ concurrentWith = [r \in Procs |-> {}]
    /\ NoTagModel
    /\ NoPermModel
    /\ NoRepoModels

Next ==
    \/ \E r \in Procs, q \in Requests : checkAuth(r, q) /\ UNCHANGED <<tagVars, permVars, repoVars>>
    \/ \E r \in Procs : voteGetPhoto(r) /\ UNCHANGED <<tagVars, permVars, repoVars>>
    \/ \E r \in Procs : editGetPhoto(r) /\ UNCHANGED <<tagVars, permVars, repoVars>>
    \/ \E r \in Procs : photoUpdate(r) /\ UNCHANGED <<tagVars, permVars, repoVars>>
    \/ \E r \in Procs : photoUpdateFails(r) /\ UNCHANGED <<tagVars, permVars, repoVars>>
    \/ \E r \in Procs : userUpdate(r) /\ UNCHANGED <<tagVars, permVars, repoVars>>
    \/ \E r \in Procs : userUpdateFails(r) /\ UNCHANGED <<tagVars, permVars, repoVars>>

Spec == Init /\ [][Next]_vars


\* ------------------------------------------------- claims: the vote model
IsVote(r) == req[r].kind \in Votes

Done(r) == pc[r] = "done"

Score(p) == p.UpVotes + p.DownVotes

\* the counters of the photo as request r read them (photo[r] holds them
\* after fn once CanVote has passed)
ScoreRead(r) ==
    IF outcome[r] = "Forbidden" THEN Score(photo[r]) ELSE Score(photo[r]) - 1

Min(a, b) == IF a < b THEN a ELSE b

\* two finished votes of one authenticated non-owner on one photo that
\* overlapped, came in before any vote of the pair had succeeded, and met
\* no store error
RacingVotes(r1, r2) ==
    /\ r1 # r2
    /\ Done(r1) /\ Done(r2)
    /\ IsVote(r1) /\ IsVote(r2)
    /\ r2 \in concurrentWith[r1]
    /\ req[r1].sess = req[r2].sess /\ req[r1].pid = req[r2].pid
    /\ req[r1].sess # 0
    /\ req[r1].pid \in Photos
    /\ dbPhotos[req[r1].pid].OwnerID # req[r1].sess
    /\ ~afterSuccess[r1] /\ ~afterSuccess[r2]
    /\ outcome[r1] # "ServerError" /\ outcome[r2] # "ServerError"

\* C1: two concurrent votes of one user on one photo he has not voted on
\* end with exactly one success and one rejection, and the photo's counters
\* have grown by exactly 1 in total.
C1_ConcurrentVotesCountOnce ==
    \A r1, r2 \in Procs :
        RacingVotes(r1, r2) =>
            /\ \/ outcome[r1] = "OK" /\ outcome[r2] = "Forbidden"
               \/ outcome[r1] = "Forbidden" /\ outcome[r2] = "OK"
            /\ Score(dbPhotos[req[r1].pid]) =
                   Min(ScoreRead(r1), ScoreRead(r2)) + 1

\* C2: once a vote of a user on a photo has rendered OK, every later vote
\* request of that user on that photo that is in flight can only end
\* rejected, and its steps leave the photos and the users as they are.
C2_SecondVoteRejected ==
    [][\A r \in Procs :
          (InFlight(r) /\ IsVote(r) /\ afterSuccess[r] /\ pc'[r] # pc[r]) =>
              /\ pc'[r] = "done"
              /\ outcome'[r] = "Forbidden"
              /\ dbPhotos' = dbPhotos
              /\ dbUsers' = dbUsers]_vars

\* C3: the photo update of a vote raises the chosen counter of its photo
\* by exactly 1 and changes no other counter and no other photo; when the
\* vote renders OK the photo it wrote and its vote-set entry are the
\* persisted ones, the vote set having gained exactly that photo.
C3_VoteEffect ==
    [][\A r \in Procs :
          /\ (IsVote(r) /\ pc[r] = "updatePhoto" /\ pc'[r] = "updateUser") =>
                 /\ dbPhotos'[req[r].pid] = fn(req[r].kind, dbPhotos[req[r].pid])
                 /\ \A p \in Photos \ {req[r].pid} : dbPhotos'[p] = dbPhotos[p]
          /\ (IsVote(r) /\ pc[r] = "updateUser" /\ outcome'[r] = "OK") =>
                 /\ dbPhotos'[req[r].pid] = photo[r]
                 /\ VoteSet(dbUsers'[req[r].sess]) =
                        VoteSet(dbUsers[req[r].sess]) \cup {req[r].pid}]_vars

\* C4: the persisted upVotes and downVotes of a photo never decrease from
\* one state to the next.
C4_CountersMonotonic ==
    [][\A p \in Photos :
          /\ dbPhotos'[p].UpVotes >= dbPhotos[p].UpVotes
          /\ dbPhotos'[p].DownVotes >= dbPhotos[p].DownVotes]_vars

\* C5: a photo identifier in a user's persisted vote set is in it in every
\* later state.
C5_VoteSetAppendOnly ==
    [][\A u \in Users :
          VoteSet(dbUsers[u]) \subseteq VoteSet(dbUsers'[u])]_vars

\* the precondition of vote a finished request failed, if any
Failed(r) ==
    IF ~IsVote(r) \/ ~Done(r) THEN "none"
    ELSE IF ~user[r].IsAuthenticated THEN "unauthenticated"
    ELSE IF photo[r] = Nil THEN "none"
    ELSE IF photo[r].OwnerID = user[r].ID THEN "owner"
    ELSE IF HasVoted(user[r], photo[r].ID) THEN "voted"
    ELSE "none"

\* votes that failed different preconditions were rendered differently
DistinctRejections ==
    \A r1, r2 \in Procs :
        (Failed(r1) # "none" /\ Failed(r2) # "none" /\ Failed(r1) # Failed(r2))
            => (outcome[r1] # "OK" /\ outcome[r2] # "OK" /\ outcome[r1] # outcome[r2])

\* C6: votes that fail different preconditions (unauthenticated, owner,
\* already voted) are rendered with different rejections, and the step that
\* rejects a vote changes neither the photos nor the users.
C6_DistinctRejections ==
    [][/\ DistinctRejections'
       /\ \A r \in Procs :
              (~Done(r) /\ Failed(r)' # "none") =>
                  (dbPhotos' = dbPhotos /\ dbUsers' = dbUsers)]_vars

\* C17: whenever no vote request is in flight, for every photo the persisted
\* upVotes + downVotes equals the number of users whose persisted vote set
\* contains that photo.
C17_VoteInvariant ==
    (\A r \in Procs : ~(InFlight(r) /\ IsVote(r))) =>
        \A p \in Photos :
            Score(dbPhotos[p]) =
                Cardinality({u \in Users : p \in VoteSet(dbUsers[u])})

\* ------------------------------------------------- the permission model
\* GetDetail and the Permissions it computes, over photos and users whose
\* votes fields were written by RegisterVote.
MaxVoted == 2

\* identifiers of photos and users; 12 formats to two characters
PermIDs == {1, 2, 12}

SeqsUpTo(S, n) == UNION {[1..k -> S] : k \in 0..n}

\* a user as inserted (PreInsert) who then registered votes for the photos
\* of ids, in order
RECURSIVE Registered(_, _)
Registered(u, ids) ==
    IF Len(ids) = 0 THEN u
    ELSE Registered(RegisterVote(u, ids[1]), Tail(ids))

SeqToSet(q) == {q[i] : i \in 1..Len(q)}

\* GetDetail: the photo joined with its owner, its tags, the Permissions of
\* the viewer; nil for id 0, a missing photo or a missing owner
GetDetail(photoID, viewer) ==
    IF photoID = 0 \/ photoID \notin DOMAIN dbPhotos THEN [op |-> "GetDetail", found |-> FALSE]
    ELSE IF dbPhotos[photoID].OwnerID \notin DOMAIN dbUsers
    THEN [op |-> "GetDetail", found |-> FALSE]
    ELSE [op |-> "GetDetail", found |-> TRUE,
          photo |-> dbPhotos[photoID],
          viewer |-> viewer,
          Tags |-> {n \in tblTags : <<photoID, n>> \in tblPhotoTags},
          Permissions |-> [Edit |-> CanEdit(dbPhotos[photoID], viewer),
                           Delete |-> CanDelete(dbPhotos[photoID], viewer),
                           Vote |-> CanVote(dbPhotos[photoID], viewer)]]

\* photoDetail: the current user, GetDetail
photoDetail(sess, photoID) ==
    /\ detail' = GetDetail(photoID, getCurrentUser(sess))
    /\ UNCHANGED voted

\* GetDetail called without a user
photoDetailNoUser(photoID) ==
    /\ detail' = GetDetail(photoID, Nil)
    /\ UNCHANGED voted

PermInit ==
    /\ \E uid \in PermIDs, admin \in BOOLEAN, ids \in SeqsUpTo(PermIDs, MaxVoted) :
           /\ dbUsers = [u \in PermIDs |->
                  IF u = uid
                  THEN UserRow(Registered([ID |-> u, IsAdmin |-> admin,
                                           Votes |-> EmptyVotes], ids))
                  ELSE [ID |-> u, IsAdmin |-> FALSE, Votes |-> EmptyVotes]]
           /\ voted = [u \in PermIDs |-> IF u = uid THEN SeqToSet(ids) ELSE {}]
    /\ \E pid \in PermIDs, owner \in PermIDs :
           dbPhotos = [p \in {pid} |->
                          [ID |-> p, OwnerID |-> owner, Title |-> "t0",
                           UpVotes |-> 0, DownVotes |-> 0]]
    /\ pc = [r \in Procs |-> "idle"]
    /\ req = [r \in Procs |-> [kind |-> "none"]]
    /\ user = [r \in Procs |-> Nil]
    /\ photo = [r \in Procs |-> Nil]
    /\ outcome = [r \in Procs |-> "none"]
    /\ started = 0
    /\ succeeded = {}
    /\ afterSuccess = [r \in Procs |-> FALSE]
    /\ concurrentWith = [r \in Procs |-> {}]
    /\ NoTagModel
    /\ detail = [op |-> "none"]
    /\ NoRepoModels

PermNext ==
    \/ \E sess \in {0} \cup PermIDs, pid \in {0} \cup PermIDs :
           photoDetail(sess, pid) /\ UNCHANGED <<voteVars, tagVars, repoVars>>
    \/ \E pid \in PermIDs :
           photoDetailNoUser(pid) /\ UNCHANGED <<voteVars, tagVars, repoVars>>

PermSpec == PermInit /\ [][PermNext]_vars

\* the viewer of the last PhotoDetail: is a user, and signed in
Shown == detail.op = "GetDetail" /\ detail.found

IsUser(v) == v # Nil

\* C7: CanVote is true exactly when the viewer is authenticated, is not the
\* photo's owner and has no vote registered for the photo.
C7_CanVote ==
    Shown =>
        (detail.Permissions.Vote <=>
            /\ IsUser(detail.viewer)
            /\ detail.viewer.IsAuthenticated
            /\ detail.viewer.ID # detail.photo.OwnerID
            /\ detail.photo.ID \notin voted[detail.viewer.ID])

\* an authenticated viewer who is not the owner and has voted on the photo
\* and on another one is shown Vote = FALSE
C7_Witness ==
    /\ Shown
    /\ IsUser(detail.viewer)
    /\ detail.viewer.IsAuthenticated
    /\ detail.viewer.ID # detail.photo.OwnerID
    /\ detail.photo.ID \in voted[detail.viewer.ID]
    /\ Cardinality(voted[detail.viewer.ID]) = 2
    /\ ~detail.Permissions.Vote

MaxTags == 2
MaxCalls == 1

\* raw tag strings a request may carry: "", "a", " A ", "b"
RawTags == {<<>>, <<"a">>, <<" ", "A", " ">>, <<"b">>}

TagLists == SeqsUpTo(RawTags, MaxTags)

\* strings.TrimSpace
TrimSpace(s) == TrimRight(TrimLeft(s, {" "}), {" "})

\* strings.ToLower
LowerChar(c) ==
    CASE c = "A" -> "a"
      [] c = "B" -> "b"
      [] OTHER -> c

ToLower(s) == [i \in 1..Len(s) |-> LowerChar(s[i])]

\* UpdateTags, the loop: the numbers of the placeholders "$n" in args
RECURSIVE TagArgsFrom(_, _)
TagArgsFrom(tags, i) ==
    IF i > Len(tags) THEN <<>>
    ELSE (IF TrimSpace(tags[i]) # <<>> THEN <<(i - 1) + 2>> ELSE <<>>)
         \o TagArgsFrom(tags, i + 1)

TagArgs(tags) == <<1>> \o TagArgsFrom(tags, 1)

\* mutant: the names bound as they were typed, trimmed but not lowercased
RECURSIVE TagNames_NotLowered(_)
TagNames_NotLowered(tags) ==
    IF Len(tags) = 0 THEN <<>>
    ELSE (IF TrimSpace(tags[1]) # <<>> THEN <<TrimSpace(tags[1])>> ELSE <<>>)
         \o TagNames_NotLowered(Tail(tags))

\* UpdateTags, the loop: the tag names appended to params after photo.ID
RECURSIVE TagNames(_)
TagNames(tags) ==
    IF Len(tags) = 0 THEN <<>>
    ELSE (IF TrimSpace(tags[1]) # <<>>
          THEN <<ToLower(TrimSpace(tags[1]))>> ELSE <<>>)
         \o TagNames(Tail(tags))

\* the store binds a statement's parameters only when its placeholders are
\* $1..$n for the n values passed
Bindable(args, nparams) == args = [i \in 1..nparams |-> i]

TagsOf(photoID) == {n \in tblTags : <<photoID, n>> \in tblPhotoTags}

\* DELETE FROM photo_tags WHERE photo_id=$1
DeletePhotoTags(photoID) ==
    [err |-> FALSE,
     tags |-> tblTags,
     photoTags |-> {pt \in tblPhotoTags : pt[1] # photoID}]

\* SELECT add_tags(photo_id, names...): creates the missing tag rows and
\* makes the photo's associations the given names
add_tags(photoID, names) ==
    [err |-> FALSE,
     tags |-> tblTags \cup SeqToSet(names),
     photoTags |-> {pt \in tblPhotoTags : pt[1] # photoID}
                   \cup {<<photoID, n>> : n \in SeqToSet(names)}]

StoreError == [err |-> TRUE, tags |-> tblTags, photoTags |-> tblPhotoTags]

\* UpdateTags(photo); storeOk: the store executes the statement it is sent
UpdateTags(photoID, tags, storeOk) ==
    IF TagNames(tags) = <<>> /\ photoID # 0
    THEN (IF storeOk THEN DeletePhotoTags(photoID) ELSE StoreError)
    ELSE IF storeOk /\ Bindable(TagArgs(tags), 1 + Len(TagNames(tags)))
    THEN add_tags(photoID, TagNames(tags))
    ELSE StoreError

\* editPhotoTags: photoMgr.UpdateTags on a stored photo
editPhotoTags(photoID, tags, storeOk) ==
    /\ calls < MaxCalls
    /\ calls' = calls + 1
    /\ photoID \in tblPhotos
    /\ LET res == UpdateTags(photoID, tags, storeOk)
       IN  /\ tblTags' = res.tags
           /\ tblPhotoTags' = res.photoTags
           /\ last' = [op |-> "UpdateTags", ID |-> photoID, Tags |-> tags,
                       before |-> TagsOf(photoID), err |-> res.err]
    /\ UNCHANGED <<tblPhotos, nextID>>

\* Insert: dbMap.Begin() or dbMap.Insert(photo) returns an error
InsertRowFails(tags) ==
    /\ calls < MaxCalls
    /\ calls' = calls + 1
    /\ last' = [op |-> "Insert", ID |-> 0, Tags |-> tags, before |-> {},
                err |-> TRUE]
    /\ UNCHANGED <<tblPhotos, tblTags, tblPhotoTags, nextID>>

\* Insert: dbMap.Insert(photo) stores the row (on dbMap, outside the
\* transaction t), then mgr.UpdateTags(photo), then t.Commit(), which
\* returns commitErr
Insert(tags, storeOk, commitErr) ==
    /\ calls < MaxCalls
    /\ calls' = calls + 1
    /\ tblPhotos' = tblPhotos \cup {nextID}
    /\ nextID' = nextID + 1
    /\ LET res == UpdateTags(nextID, tags, storeOk)
       IN  /\ tblTags' = res.tags
           /\ tblPhotoTags' = res.photoTags
           /\ last' = [op |-> "Insert", ID |-> nextID, Tags |-> tags,
                       before |-> {},
                       err |-> IF res.err THEN TRUE ELSE commitErr]

TagInit ==
    /\ dbPhotos = <<>>
    /\ dbUsers = <<>>
    /\ pc = [r \in Procs |-> "idle"]
    /\ req = [r \in Procs |-> [kind |-> "none"]]
    /\ user = [r \in Procs |-> Nil]
    /\ photo = [r \in Procs |-> Nil]
    /\ outcome = [r \in Procs |-> "none"]
    /\ started = 0
    /\ succeeded = {}
    /\ afterSuccess = [r \in Procs |-> FALSE]
    /\ concurrentWith = [r \in Procs |-> {}]
    /\ \E prior \in SUBSET {<<"a">>, <<"b">>} :
           /\ tblTags = prior
           /\ tblPhotoTags = {<<1, n>> : n \in prior}
    /\ tblPhotos = {1}
    /\ nextID = 2
    /\ calls = 0
    /\ last = [op |-> "none"]
    /\ NoPermModel
    /\ NoRepoModels

TagNext ==
    \/ \E id \in tblPhotos, tags \in TagLists, storeOk \in BOOLEAN :
           editPhotoTags(id, tags, storeOk) /\ UNCHANGED <<voteVars, permVars, repoVars>>
    \/ \E tags \in TagLists :
           InsertRowFails(tags) /\ UNCHANGED <<voteVars, permVars, repoVars>>
    \/ \E tags \in TagLists, storeOk \in BOOLEAN, commitErr \in BOOLEAN :
           Insert(tags, storeOk, commitErr) /\ UNCHANGED <<voteVars, permVars, repoVars>>

TagSpec == TagInit /\ [][TagNext]_vars

\* the normalized desired set: each raw tag trimmed and lowercased, empty
\* strings dropped, duplicates collapsed
Normalized(tags) ==
    {ToLower(TrimSpace(tags[i])) : i \in 1..Len(tags)} \ {<<>>}

\* C9: after UpdateTags completes without error for an existing photo, the
\* photo's persisted tag set is exactly the normalized desired set, whatever
\* it was before; it is empty when the desired set is empty.
C9_UpdateTagsExact ==
    (last.op = "UpdateTags" /\ ~last.err) =>
        TagsOf(last.ID) = Normalized(last.Tags)

\* UpdateTags replaced {"b"} by {"a"}, the desired set given as two raw tags
\* that normalize to the same name
C9_Witness ==
    /\ last.op = "UpdateTags"
    /\ ~last.err
    /\ last.before = {<<"b">>}
    /\ last.Tags = <<<<"a">>, <<" ", "A", " ">>>>
    /\ TagsOf(last.ID) = {<<"a">>}

\* C10: Insert is all-or-nothing: when it returns an error neither the
\* photo row nor a tag association of it is persisted, when it returns
\* success both are.
C10_InsertAllOrNothing ==
    last.op = "Insert" =>
        IF last.err
        THEN last.ID \notin tblPhotos /\ TagsOf(last.ID) = {}
        ELSE last.ID \in tblPhotos /\ TagsOf(last.ID) = Normalized(last.Tags)


\* ------------------------------------------------------------ pagination
pageSize == 12

\* int64 scaled to IntBits bits: the integers of the repository wrap around
\* in two's complement
IntBits == 8

MinInt == -(2 ^ (IntBits - 1))

MaxInt == (2 ^ (IntBits - 1)) - 1

Int64 == MinInt..MaxInt

Wrap(x) == ((x - MinInt) % (2 ^ IntBits)) + MinInt

\* getOffset: (pageNum - 1) * pageSize in int64, negative values raised to 0
getOffset(pageNum) ==
    LET offset == Wrap(Wrap(pageNum - 1) * pageSize)
    IN  IF offset < 0 THEN 0 ELSE offset

\* ------------------------------------------------------ the offset model
\* getOffset applied to every page number an int64 can hold
computeOffset ==
    /\ ofs.op = "page"
    /\ ofs' = [op |-> "getOffset", pageNum |-> ofs.pageNum,
               offset |-> getOffset(ofs.pageNum)]
    /\ UNCHANGED <<list, auth, del, cleaner, files>>

OffsetInit ==
    /\ dbPhotos = <<>>
    /\ dbUsers = <<>>
    /\ NoRequests
    /\ NoTagModel
    /\ NoPermModel
    /\ NoListModel
    /\ NoAuthModel
    /\ NoDeleteModel
    /\ \E pageNum \in Int64 : ofs = [op |-> "page", pageNum |-> pageNum]

OffsetNext == computeOffset /\ UNCHANGED <<voteVars, tagVars, permVars>>

OffsetSpec == OffsetInit /\ [][OffsetNext]_vars

\* C14: getOffset(p) is (p - 1) * 12 for p >= 1 and 0 for p <= 0; it is
\* never negative and never another value than the mathematical
\* (p - 1) * 12, however large p is.
C14_GetOffset ==
    ofs.op = "getOffset" =>
        /\ ofs.offset >= 0
        /\ ofs.pageNum >= 1 => ofs.offset = (ofs.pageNum - 1) * 12
        /\ ofs.pageNum <= 0 => ofs.offset = 0

\* -------------------------------------------------------- the list model
\* All, ByOwnerID and Search over a store of photos, owners and tags.
MaxTotal == 25
MaxWords == 3
MaxTokens == 8

\* strings.ToUpper / UPPER(...)
UpperChar(c) ==
    CASE c = "a" -> "A"
      [] c = "b" -> "B"
      [] c = "c" -> "C"
      [] c = "u" -> "U"
      [] OTHER -> c

ToUpper(s) == [i \in 1..Len(s) |-> UpperChar(s[i])]

\* strings.HasPrefix(s, prefix) for a one-character prefix
HasPrefix(s, prefix) == Len(s) > 0 /\ s[1] = prefix

Contains(s, sub) ==
    \E i \in 0..(Len(s) - Len(sub)) : SubSeq(s, i + 1, i + Len(sub)) = sub

\* s LIKE pattern, for the patterns Search builds: "%word%" or a plain word
Like(s, pattern) ==
    IF Len(pattern) >= 2 /\ pattern[1] = "%" /\ pattern[Len(pattern)] = "%"
    THEN Contains(s, SubSeq(pattern, 2, Len(pattern) - 1))
    ELSE s = pattern

\* strconv.ParseInt(s, 10, 64): a sign, digits, a value an int64 holds
Unsigned(s) == IF HasPrefix(s, "-") \/ HasPrefix(s, "+") THEN Tail(s) ELSE s

ParseIntVal(s) ==
    IF HasPrefix(s, "-") THEN -AtoiVal(Unsigned(s)) ELSE AtoiVal(Unsigned(s))

ParseIntOk(s) == AtoiOk(Unsigned(s)) /\ ParseIntVal(s) \in Int64

\* getPage: the form value "page", 1 when it does not parse
getPage(page) == IF ParseIntOk(page) THEN ParseIntVal(page) ELSE 1

\* mutant: the number of pages rounded down
numPages_Floor(total) == total \div pageSize

\* NewPhotoList: math.Ceil(float64(total) / float64(pageSize)); the
\* conversions and the quotient's rounding are exact enough below 2^53 for
\* Ceil to see the true quotient
numPages(total) ==
    IF total % pageSize = 0 THEN total \div pageSize
    ELSE (total \div pageSize) + 1

NewPhotoList(photos, total, page) ==
    [returned |-> "list", Items |-> photos, Total |-> total,
     CurrentPage |-> page, NumPages |-> numPages(total)]

\* return nil, nil / return nil, err
NilList == [returned |-> "nil"]

ErrList == [returned |-> "err"]

Rating(p) == dbPhotos[p].UpVotes - dbPhotos[p].DownVotes

\* does row a come before row b under the ORDER BY clause:
\*   "votes,date": (up_votes - down_votes) DESC, created_at DESC
\*   "date":       created_at DESC
\*   "votes":      (up_votes - down_votes) DESC, the rows of equal rating
\*                 in an order the store picks: by ascending or descending id
Before(a, b, order, tie) ==
    CASE order = "votes,date" ->
             \/ Rating(a) > Rating(b)
             \/ /\ Rating(a) = Rating(b)
                /\ dbPhotos[a].CreatedAt > dbPhotos[b].CreatedAt
      [] order = "date" -> dbPhotos[a].CreatedAt > dbPhotos[b].CreatedAt
      [] OTHER ->
             \/ Rating(a) > Rating(b)
             \/ /\ Rating(a) = Rating(b)
                /\ IF tie = "asc" THEN a < b ELSE a > b

\* the rows of S in the order of the ORDER BY clause
Sorted(S, order, tie) ==
    [i \in 1..Cardinality(S) |->
        CHOOSE p \in S :
            Cardinality({q \in S : Before(q, p, order, tie)}) = i - 1]

\* ... LIMIT limit OFFSET offset
LimitOffset(rows, limit, offset) ==
    SubSeq(rows, offset + 1, Min(Len(rows), offset + limit))

\* All(pageNum, orderBy)
All(pageNum, orderBy, tie, storeOk) ==
    IF ~storeOk THEN ErrList
    ELSE LET total == Cardinality(DOMAIN dbPhotos)
             rows == Sorted(DOMAIN dbPhotos,
                            IF orderBy = "votes" THEN "votes" ELSE "date", tie)
         IN  NewPhotoList(LimitOffset(rows, pageSize, getOffset(pageNum)),
                          total, pageNum)

\* ByOwnerID(pageNum, ownerID); its select reads "... owner_id = $1ORDER BY
\* ...", which a store either takes as $1 ORDER BY or rejects (storeOk)
ByOwnerID(pageNum, ownerID, storeOk) ==
    IF ownerID = 0 THEN NilList
    ELSE IF ~storeOk THEN ErrList
    ELSE LET owned == {p \in DOMAIN dbPhotos : dbPhotos[p].OwnerID = ownerID}
         IN  NewPhotoList(LimitOffset(Sorted(owned, "votes,date", ""), pageSize,
                                      getOffset(pageNum)),
                          Cardinality(owned), pageNum)

\* Search, the loop: the words that get a clause, each with the number of
\* its placeholder; num is the index of the word in strings.Split(q, " ")
RECURSIVE CompileFrom(_, _)
CompileFrom(words, num) ==
    IF num >= Len(words) THEN <<>>
    ELSE IF TrimSpace(words[num + 1]) = <<>> \/ num > 6 THEN <<>>
    ELSE <<[word |-> TrimSpace(words[num + 1]), num |-> num + 1]>>
         \o CompileFrom(words, num + 1)

\* Search, the loop: the kind of clause a word gets
ClauseKind(word) ==
    IF HasPrefix(word, "@") THEN "owner"
    ELSE IF HasPrefix(word, "#") THEN "tag"
    ELSE "fuzzy"

\* Search, the loop: the parameter appended for a word
Param(word) ==
    IF HasPrefix(word, "@") \/ HasPrefix(word, "#") THEN Tail(word)
    ELSE <<"%">> \o word \o <<"%">>

\* the three SELECTs of Search: does photo p satisfy the clause for param
ClauseMatches(kind, param, p) ==
    LET ownerID == dbPhotos[p].OwnerID
    IN  CASE kind = "owner" ->
                 /\ ownerID \in DOMAIN dbUsers
                 /\ ToUpper(dbUsers[ownerID].Name) = ToUpper(param)
          [] kind = "tag" ->
                 \E n \in TagsOf(p) : ToUpper(n) = ToUpper(param)
          [] OTHER ->
                 /\ ownerID \in DOMAIN dbUsers
                 /\ \/ Like(ToUpper(dbPhotos[p].Title), ToUpper(param))
                    \/ Like(ToUpper(dbUsers[ownerID].Name), ToUpper(param))
                    \/ \E n \in TagsOf(p) : Like(n, param)

\* mutant: the clauses joined with UNION
Intersect_Union(selects) == \E i \in 1..Len(selects) : selects[i]

\* c1 INTERSECT c2 INTERSECT ...: a row is in the result when every clause
\* selects it; selects[i] tells whether clause i does
Intersect(selects) == \A i \in 1..Len(selects) : selects[i]

\* Search after the loop, for the words compiled: the count, the select
\* and the list.  The store rejects a statement with an empty subquery and
\* one whose placeholders are not $1..$n for its n parameters.  (CHOOSE
\* over a one-element set names a value that is computed once.)
SearchCompiled(pageNum, compiled, storeOk) ==
    LET n == Len(compiled)
        nums == [i \in 1..n |-> compiled[i].num]
        params == [i \in 1..n |-> Param(compiled[i].word)]
        accepted ==
            /\ storeOk
            /\ n > 0
            /\ Bindable(nums, Len(params))
            /\ Bindable(nums \o <<Len(params) + 1, Len(params) + 2>>,
                        Len(params) + 2)
        rows == {p \in DOMAIN dbPhotos :
                    Intersect([i \in 1..n |->
                                  ClauseMatches(ClauseKind(compiled[i].word),
                                                params[nums[i]], p)])}
    IN  (IF ~accepted THEN ErrList
         ELSE CHOOSE l \in {NewPhotoList(
                                LimitOffset(Sorted(found, "votes,date", ""),
                                            pageSize, getOffset(pageNum)),
                                Cardinality(found), pageNum) :
                            found \in {rows}} : TRUE)
        @@ [tokens |-> [i \in 1..n |-> compiled[i].word], queried |-> TRUE]

\* Search(pageNum, q)
Search(pageNum, q, storeOk) ==
    IF q = <<>> THEN NilList @@ [tokens |-> <<>>, queried |-> FALSE]
    ELSE CHOOSE l \in {SearchCompiled(pageNum, compiled, storeOk) :
                          compiled \in {CompileFrom(Split(q, " "), 0)}} : TRUE

\* the status a list handler renders.  The list requests only read the
\* store, so a behaviour holds one of them.
ListStatus(res) == IF res.returned = "err" THEN "ServerError" ELSE "OK"

\* getPhotos: photoMgr.All(getPage(r), orderBy)
getPhotos(page, orderBy, tie, storeOk) ==
    /\ list.op = "none"
    /\ \E res \in {All(getPage(page), orderBy, tie, storeOk)} :
           list' = [op |-> "All", pageNum |-> getPage(page)]
                   @@ res @@ [status |-> ListStatus(res)]

\* photosByOwnerID: photoMgr.ByOwnerID(getPage(r), ownerID)
photosByOwnerID(page, ownerID, storeOk) ==
    /\ list.op = "none"
    /\ \E res \in {ByOwnerID(getPage(page), ownerID, storeOk)} :
           list' = [op |-> "ByOwnerID", pageNum |-> getPage(page)]
                   @@ res @@ [status |-> ListStatus(res)]

\* searchPhotos: photoMgr.Search(getPage(r), q)
searchPhotos(page, q, storeOk) ==
    /\ list.op = "none"
    /\ \E res \in {Search(getPage(page), q, storeOk)} :
           list' = [op |-> "Search", pageNum |-> getPage(page), q |-> q]
                   @@ res @@ [status |-> ListStatus(res)]

\* the names of the two owners, the titles and the tag sets of the photos
OwnerNames == << <<"u">>, <<"a", "b">> >>

Titles == << <<"a">>, <<"B">>, <<"c">> >>

PhotoTagSets == << {}, {<<"a">>}, {<<"b">>}, {<<"a">>, <<"b">>}, {<<"a">>} >>

StoreSizes == {0, 1, 5, 12, 13, MaxTotal}

\* the form values of "page"
FormPages == {<<"x">>, <<"1">>, <<"2">>, <<"3">>, <<"-", "1">>, <<"1", "2">>}

SearchWords == {<<>>, <<"a">>, <<"B">>, <<"@", "U">>, <<"#", "a">>}

\* the queries: up to MaxWords words joined by spaces, and "1 2 3 ..." of
\* up to MaxTokens words
Queries ==
    {Join(ws, " ") : ws \in SeqsUpTo(SearchWords, MaxWords)}
    \cup {Join([i \in 1..k |-> <<Digits[i + 1]>>], " ") : k \in 1..MaxTokens}

ListInit ==
    /\ \E total \in StoreSizes :
           /\ dbPhotos = [p \in 1..total |->
                  [ID |-> p, OwnerID |-> ((p - 1) % 2) + 1,
                   Title |-> Titles[((p - 1) % 3) + 1],
                   UpVotes |-> p % 3, DownVotes |-> 0, CreatedAt |-> p]]
           /\ tblPhotos = 1..total
           /\ tblPhotoTags = {pt \in (1..total) \X {<<"a">>, <<"b">>} :
                                 pt[2] \in PhotoTagSets[((pt[1] - 1) % 5) + 1]}
           /\ nextID = total + 1
    /\ dbUsers = [u \in 1..2 |->
                     [ID |-> u, Name |-> OwnerNames[u], IsAdmin |-> FALSE,
                      Votes |-> EmptyVotes]]
    /\ tblTags = {<<"a">>, <<"b">>}
    /\ calls = 0
    /\ last = [op |-> "none"]
    /\ NoRequests
    /\ NoPermModel
    /\ NoRepoModels

ListNext ==
    /\ list.op = "none"
    /\ \/ \E page \in FormPages, orderBy \in {"votes", ""}, tie \in {"asc", "desc"},
             storeOk \in BOOLEAN :
              getPhotos(page, orderBy, tie, storeOk)
       \/ \E page \in FormPages, ownerID \in 0..3, storeOk \in BOOLEAN :
              photosByOwnerID(page, ownerID, storeOk)
       \/ \E page \in FormPages, q \in Queries, storeOk \in BOOLEAN :
              searchPhotos(page, q, storeOk)
    /\ UNCHANGED <<voteVars, tagVars, permVars, ofs, auth, del, cleaner, files>>

ListSpec == ListInit /\ [][ListNext]_vars

\* ------------------------------------------------ claims: the list model
\* does photo p satisfy the predicate of a token: owner-exact for "@",
\* tag-exact for "#", fuzzy otherwise
Satisfies(p, token) == ClauseMatches(ClauseKind(token), Param(token), p)

\* the photos that satisfy every token Search compiled
Wanted ==
    {p \in DOMAIN dbPhotos :
        \A i \in 1..Len(list.tokens) : Satisfies(p, list.tokens[i])}

IsList == list.op # "none" /\ list.returned = "list"

FirstTokens(q) ==
    LET words == Split(q, " ")
        nonEmpty == SelectSeq([i \in 1..Len(words) |-> TrimSpace(words[i])],
                              LAMBDA w : w # <<>>)
    IN  SubSeq(nonEmpty, 1, Min(6, Len(nonEmpty)))

\* C12: for a non-empty query the tokens Search compiles are the first 6
\* non-empty whitespace-separated tokens of the query, in order: empty
\* tokens are skipped, a 7th or later token is ignored.
C12_FirstSixTokens ==
    (list.op = "Search" /\ list.q # <<>>) => list.tokens = FirstTokens(list.q)

\* C13: every list returned has NumPages = ceil(Total / 12), 0 for Total 0,
\* and holds at most 12 items.
C13_NumPages ==
    IsList =>
        /\ list.NumPages >= 0
        /\ list.NumPages * 12 >= list.Total
        /\ (list.NumPages - 1) * 12 < list.Total
        /\ list.Total = 0 => list.NumPages = 0
        /\ Len(list.Items) <= 12

\* a search with more than one page of results, the last page not full,
\* returned a full page
C13_Witness ==
    /\ IsList
    /\ list.op = "Search"
    /\ list.Total > 12
    /\ list.Total % 12 # 0
    /\ list.NumPages = 2
    /\ Len(list.Items) = 12

\* C19: Search never sends the store a query built from zero predicates:
\* for a non-empty query with no surviving token it returns without a
\* store error.
C19_NoEmptyQuery ==
    (list.op = "Search" /\ list.q # <<>> /\ list.tokens = <<>>) =>
        (~list.queried /\ list.returned # "err")

\* ------------------------------------------------------- the login model
\* Authenticate over stored users; names are unique and emails are unique,
\* and a name may be the email of another user.
Passwords == {"pw1", "pw2"}

Identifiers == {"ann", "ann@x", "bob", "bob@x", "zed"}

\* bcrypt.GenerateFromPassword, bcrypt.CompareHashAndPassword
Hash(password) == <<"bcrypt", password>>

CompareHashAndPassword(hashed, password) == hashed = Hash(password)

\* mutant: CheckPassword without the comparison
CheckPassword_NoCompare(u, password) == u.Password # ""

CheckPassword(u, password) ==
    IF u.Password = "" THEN FALSE
    ELSE CompareHashAndPassword(u.Password, password)

\* SELECT * FROM users WHERE active=$1 AND (email=$2 OR name=$2)
ActiveByIdentifier(identifier) ==
    {u \in DOMAIN dbUsers :
        /\ dbUsers[u].IsActive
        /\ dbUsers[u].Email = identifier \/ dbUsers[u].Name = identifier}

\* Authenticate(identifier, password): SelectOne returns sql.ErrNoRows for
\* no row, an error for more than one row or a failing store
Authenticate(identifier, password, storeOk) ==
    LET rows == ActiveByIdentifier(identifier)
    IN  IF ~storeOk \/ Cardinality(rows) > 1 THEN [user |-> Nil, err |-> TRUE]
        ELSE IF rows = {} THEN [user |-> Nil, err |-> FALSE]
        ELSE IF ~CheckPassword(dbUsers[CHOOSE u \in rows : TRUE], password)
        THEN [user |-> Nil, err |-> FALSE]
        ELSE [user |-> dbUsers[CHOOSE u \in rows : TRUE], err |-> FALSE]

\* a login: userMgr.Authenticate(identifier, password)
login(identifier, password, storeOk) ==
    /\ auth.op = "none"
    /\ auth' = [op |-> "Authenticate", identifier |-> identifier,
                password |-> password, storeOk |-> storeOk]
               @@ Authenticate(identifier, password, storeOk)
    /\ UNCHANGED <<list, ofs, del, cleaner, files>>

AuthInit ==
    /\ \E name2 \in {"bob", "ann@x"}, active \in [1..2 -> BOOLEAN],
          pw \in [1..2 -> Passwords] :
           dbUsers = [u \in 1..2 |->
               [ID |-> u,
                Name |-> IF u = 1 THEN "ann" ELSE name2,
                Email |-> IF u = 1 THEN "ann@x" ELSE "bob@x",
                Password |-> Hash(pw[u]),
                IsActive |-> active[u],
                IsAdmin |-> FALSE,
                Votes |-> EmptyVotes]]
    /\ dbPhotos = <<>>
    /\ NoRequests
    /\ NoTagModel
    /\ NoPermModel
    /\ NoListModel
    /\ NoOffsetModel
    /\ NoDeleteModel
    /\ auth = [op |-> "none"]

AuthNext ==
    /\ \E identifier \in Identifiers, password \in Passwords, storeOk \in BOOLEAN :
           login(identifier, password, storeOk)
    /\ UNCHANGED <<voteVars, tagVars, permVars>>

AuthSpec == AuthInit /\ [][AuthNext]_vars

\* the stored users whose name or email is the identifier of the call
Matching ==
    {u \in DOMAIN dbUsers :
        dbUsers[u].Name = auth.identifier \/ dbUsers[u].Email = auth.identifier}

NoSuchUser == Matching = {}

OnlyInactive == Matching # {} /\ \A u \in Matching : ~dbUsers[u].IsActive

\* the identifier is that of one active user, whose password is another
WrongPassword ==
    \E u \in Matching :
        /\ dbUsers[u].IsActive
        /\ \A v \in Matching \ {u} : ~dbUsers[v].IsActive
        /\ dbUsers[u].Password # Hash(auth.password)

MaxDeletes == 2

FileName(p) == <<"photo", p>>

\* Delete(photo) is called for a stored photo
Delete(id) ==
    /\ del.pc \in {"idle", "done"}
    /\ Len(cleaner) < MaxDeletes
    /\ id \in DOMAIN dbPhotos
    /\ del' = [pc |-> "PreDelete", ID |-> id, Filename |-> dbPhotos[id].Filename,
               rowErr |-> FALSE, err |-> FALSE]
    /\ UNCHANGED <<dbPhotos, cleaner, files>>

\* mutant: the hook removes the file itself before it returns
PreDelete_Inline ==
    /\ del.pc = "PreDelete"
    /\ cleaner' = Append(cleaner, [file |-> del.Filename, state |-> "removed"])
    /\ files' = files \ {del.Filename}
    /\ del' = [del EXCEPT !.pc = "exec"]
    /\ UNCHANGED dbPhotos

\* PreDelete: go photoCleaner.Clean(photo.Filename); return nil
PreDelete ==
    /\ del.pc = "PreDelete"
    /\ cleaner' = Append(cleaner, [file |-> del.Filename, state |-> "running"])
    /\ del' = [del EXCEPT !.pc = "exec"]
    /\ UNCHANGED <<dbPhotos, files>>

\* dbMap.Delete removes the row; Delete returns nil
deleteRow ==
    /\ del.pc = "exec"
    /\ dbPhotos' = [p \in DOMAIN dbPhotos \ {del.ID} |-> dbPhotos[p]]
    /\ del' = [del EXCEPT !.pc = "done", !.rowErr = FALSE, !.err = FALSE]
    /\ UNCHANGED <<cleaner, files>>

\* dbMap.Delete returns an error; Delete returns it
deleteRowFails ==
    /\ del.pc = "exec"
    /\ del' = [del EXCEPT !.pc = "done", !.rowErr = TRUE, !.err = TRUE]
    /\ UNCHANGED <<dbPhotos, cleaner, files>>

\* a goroutine: photoCleaner.Clean removes the file
Clean(t) ==
    /\ cleaner[t].state = "running"
    /\ cleaner[t].file \in files
    /\ files' = files \ {cleaner[t].file}
    /\ cleaner' = [cleaner EXCEPT ![t].state = "removed"]
    /\ UNCHANGED <<dbPhotos, del>>

\* a goroutine: photoCleaner.Clean fails (a missing file, an I/O error)
CleanFails(t) ==
    /\ cleaner[t].state = "running"
    /\ cleaner' = [cleaner EXCEPT ![t].state = "failed"]
    /\ UNCHANGED <<dbPhotos, del, files>>

DeleteInit ==
    /\ dbPhotos = [p \in Photos |->
                      [ID |-> p, OwnerID |-> 1, Title |-> "t0",
                       Filename |-> FileName(p), UpVotes |-> 0, DownVotes |-> 0]]
    /\ dbUsers = [u \in Users |->
                     [ID |-> u, IsAdmin |-> FALSE, Votes |-> EmptyVotes]]
    /\ files \in SUBSET {FileName(p) : p \in Photos}
    /\ cleaner = <<>>
    /\ del = [pc |-> "idle"]
    /\ NoRequests
    /\ NoTagModel
    /\ NoPermModel
    /\ NoListModel
    /\ NoOffsetModel
    /\ NoAuthModel

deleteOthers ==
    <<dbUsers, pc, req, user, photo, outcome, started, succeeded, afterSuccess,
      concurrentWith, tagVars, permVars, list, ofs, auth>>

DeleteNext ==
    \/ \E id \in Photos : Delete(id) /\ UNCHANGED deleteOthers
    \/ PreDelete /\ UNCHANGED deleteOthers
    \/ deleteRow /\ UNCHANGED deleteOthers
    \/ deleteRowFails /\ UNCHANGED deleteOthers
    \/ \E t \in 1..Len(cleaner) : Clean(t) /\ UNCHANGED deleteOthers
    \/ \E t \in 1..Len(cleaner) : CleanFails(t) /\ UNCHANGED deleteOthers

DeleteSpec == DeleteInit /\ [][DeleteNext]_vars

\* C16: Delete starts the removal of the backing file as a task of its
\* own and does not wait for it: the steps of Delete remove no file and
\* finish no task, Delete returns from the row removal alone, with the
\* error of the row removal or none, and a step of a task changes nothing
\* of Delete or of the rows.
C16_DeleteIndependent ==
    [][/\ del' # del =>
              /\ files' = files
              /\ \A t \in 1..Len(cleaner) : cleaner'[t] = cleaner[t]
       /\ (del.pc # "done" /\ del'.pc = "done") =>
              /\ del.pc = "exec"
              /\ del'.err = del'.rowErr
              /\ del'.err <=> dbPhotos' = dbPhotos
       /\ del' = del => dbPhotos' = dbPhotos]_vars

\* two photos deleted with success: the first file's removal failed, the
\* second is still running when Delete has returned
C16_Witness ==
    /\ del.pc = "done"
    /\ ~del.err
    /\ dbPhotos = <<>>
    /\ Len(cleaner) = 2
    /\ cleaner[1].state = "failed"
    /\ cleaner[2].state = "running"
    /\ cleaner[2].file = del.Filename
    /\ del.Filename \in files

\* C18: the add_tags call UpdateTags builds uses the placeholders $1..$n
\* for its n bound parameters (the photo id plus one per non-blank tag),
\* whatever the raw tags are.
C18_PlaceholdersConsecutive ==
    (last.op # "none" /\ last.ID # 0 /\ TagNames(last.Tags) # <<>>) =>
        Bindable(TagArgs(last.Tags), 1 + Len(TagNames(last.Tags)))

====
